---- MODULE Spec2Model ----
(***************************************************************************)
(* Shelly RPC over BLE GATT: the client's lifecycle, the length-prefixed   *)
(* roundtrip over the Tx-length, Rx-length and Data characteristics, the   *)
(* chunked writer and reader, and Call's correlation of the response.      *)
(*                                                                         *)
(* A payload is a sequence of units of transfer.  On the two control       *)
(* characteristics a unit is a byte (0..255); on the Data characteristic a *)
(* unit is one lexical element of the JSON text, a record [k, t, s] (the   *)
(* member's key, the kind of its value, the value's text), and the length  *)
(* of a payload is its number of units.                                    *)
(***************************************************************************)
EXTENDS Integers, Sequences, FiniteSets, TLC

\* ------------------------------------------------------------------ bounds
MaxID == 1
MaxMTU == 5
MaxFaults == 1
MaxLen == 6

\* --------------------------------------------------------------- constants
SourceName == "go-shellyrpc"

Callers == {"c1", "c2"}
SerialCallers == {"c1"}

\* The one caller of a program that calls from one place.
Direct == "c1"

IDs == 0..MaxID
MTUs == 1..MaxMTU
Methods == {"Shelly.GetConfig"}
Destinations == {SourceName, "other"}

\* ------------------------------------------------------------ length prefix
\* A uint32 is kept as its two 16-bit halves, [hi, lo], so that all of its
\* range is there.

\* uint32(i), i an int >= 0
Uint32(i) == [hi |-> (i \div 65536) % 65536, lo |-> i % 65536]

\* int(u), u a uint32
ToInt(u) == u.hi * 65536 + u.lo

\* toBytes in the other byte order: binary.LittleEndian.PutUint32
toBytesLittleEndian(u) == << u.lo % 256, u.lo \div 256, u.hi % 256, u.hi \div 256 >>

\* binary.BigEndian.PutUint32 into 4 fresh bytes
toBytes(u) == << u.hi \div 256, u.hi % 256, u.lo \div 256, u.lo % 256 >>

\* fromBytes reading 16 bits only: binary.BigEndian.Uint16(b[2:])
fromBytesLow16(b) == [hi |-> 0, lo |-> b[3] * 256 + b[4]]

\* binary.BigEndian.Uint32: the first 4 bytes of b
fromBytes(b) == [hi |-> b[1] * 256 + b[2], lo |-> b[3] * 256 + b[4]]

\* -------------------------------------------------------------- sequences
Min(a, b) == IF a < b THEN a ELSE b

Drop(s, n) == SubSeq(s, Min(n, Len(s)) + 1, Len(s))

\* ------------------------------------------------------------- JSON values
\* The Go values of type Params / Result (map[string]any) are named:
\*   "nil"      the nil map
\*   "empty"    map[string]any{}
\*   "a1"       {"a":1,"b":[1,2,3]}
\*   "envelope" {"code":-103,"message":"..."}    (a device-side error envelope)
\*   "nested"   {"a":{"b":{"c":[{"d":null}]}}}
\*   "chan"     a map holding a value encoding/json cannot encode

\* The JSON text of a value: its kind and its text.
JNull == [t |-> "null", s |-> "null"]
JObj(s) == [t |-> "obj", s |-> s]
JStr(s) == [t |-> "str", s |-> s]
JNum(i) == [t |-> "num", s |-> ToString(i)]
JArr(s) == [t |-> "arr", s |-> s]

\* json.Marshal of a map[string]any
MarshalMap(v) ==
    CASE v = "nil" -> [ok |-> TRUE, j |-> JNull]
      [] v = "empty" -> [ok |-> TRUE, j |-> JObj("{}")]
      [] v = "a1" -> [ok |-> TRUE, j |-> JObj("{a:1,b:[1,2,3]}")]
      [] v = "envelope" -> [ok |-> TRUE, j |-> JObj("{code:-103,message:m}")]
      [] v = "nested" -> [ok |-> TRUE, j |-> JObj("{a:{b:{c:[{d:null}]}}}")]
      [] OTHER -> [ok |-> FALSE, j |-> JNull]

\* json.Unmarshal of a JSON value into a map[string]any holding `old`: null
\* sets a map to nil, whatever it held
UnmarshalMap(j, old) ==
    CASE j.t = "null" -> [ok |-> TRUE, v |-> "nil"]
      [] j.t = "obj" /\ j.s = "{}" -> [ok |-> TRUE, v |-> "empty"]
      [] j.t = "obj" /\ j.s = "{a:1,b:[1,2,3]}" -> [ok |-> TRUE, v |-> "a1"]
      [] j.t = "obj" /\ j.s = "{code:-103,message:m}" -> [ok |-> TRUE, v |-> "envelope"]
      [] j.t = "obj" /\ j.s = "{a:{b:{c:[{d:null}]}}}" -> [ok |-> TRUE, v |-> "nested"]
      [] OTHER -> [ok |-> FALSE, v |-> old]

\* json.Unmarshal of a JSON value into a uint64 field holding `old`
UnmarshalUint(j, old) ==
    CASE j.t = "null" -> [ok |-> TRUE, v |-> old]
      [] j.t = "num" /\ (\E i \in IDs : ToString(i) = j.s) ->
            [ok |-> TRUE, v |-> CHOOSE i \in IDs : ToString(i) = j.s]
      [] OTHER -> [ok |-> FALSE, v |-> old]

\* json.Unmarshal of a JSON value into a string field holding `old`
UnmarshalString(j, old) ==
    CASE j.t = "null" -> [ok |-> TRUE, v |-> old]
      [] j.t = "str" -> [ok |-> TRUE, v |-> j.s]
      [] OTHER -> [ok |-> FALSE, v |-> old]

\* ------------------------------------------------------------------ frames
Open == [k |-> "{", t |-> "", s |-> ""]
Close == [k |-> "}", t |-> "", s |-> ""]
Garbage == [k |-> "?", t |-> "", s |-> ""]
Member(k, j) == [k |-> k, t |-> j.t, s |-> j.s]

RequestFrame(id, method, params) ==
    [ID |-> id, Source |-> SourceName, Method |-> method, Params |-> params]

ZeroResponse == [ID |-> 0, Destination |-> "", Result |-> "nil"]

\* json.Marshal(req)
MarshalRequest(req) ==
    LET p == MarshalMap(req.Params)
    IN  IF ~p.ok THEN [ok |-> FALSE, bytes |-> <<>>]
        ELSE [ok |-> TRUE,
              bytes |-> << Open,
                           Member("id", JNum(req.ID)),
                           Member("src", JStr(req.Source)),
                           Member("method", JStr(req.Method)),
                           Member("params", p.j),
                           Close >>]

\* A well-formed JSON object text: an opening, members, a closing.
IsObjectText(b) ==
    /\ Len(b) >= 2
    /\ b[1] = Open
    /\ b[Len(b)] = Close
    /\ \A i \in 2..(Len(b) - 1) : b[i].k \notin {"{", "}", "?"}

\* DecodeMembers with the result's key misspelt: `json:"results"`
RECURSIVE DecodeMembersWrongKey(_, _, _)
DecodeMembersWrongKey(ms, fr, ok) ==
    IF ms = <<>> THEN [ok |-> ok, frame |-> fr]
    ELSE LET m == Head(ms)
             j == [t |-> m.t, s |-> m.s]
         IN  CASE m.k = "id" ->
                    LET u == UnmarshalUint(j, fr.ID)
                    IN  DecodeMembersWrongKey(Tail(ms), [fr EXCEPT !.ID = u.v], ok /\ u.ok)
               [] m.k = "dst" ->
                    LET u == UnmarshalString(j, fr.Destination)
                    IN  DecodeMembersWrongKey(Tail(ms), [fr EXCEPT !.Destination = u.v], ok /\ u.ok)
               [] m.k = "results" ->
                    LET u == UnmarshalMap(j, fr.Result)
                    IN  DecodeMembersWrongKey(Tail(ms), [fr EXCEPT !.Result = u.v], ok /\ u.ok)
               [] OTHER -> DecodeMembersWrongKey(Tail(ms), fr, ok)

\* The decoder's walk over the members: a member of a known key is stored in
\* its field, a member of an unknown key is skipped, a member whose value has
\* the wrong kind leaves the field and is remembered as the error.
RECURSIVE DecodeMembers(_, _, _)
DecodeMembers(ms, fr, ok) ==
    IF ms = <<>> THEN [ok |-> ok, frame |-> fr]
    ELSE LET m == Head(ms)
             j == [t |-> m.t, s |-> m.s]
         IN  CASE m.k = "id" ->
                    LET u == UnmarshalUint(j, fr.ID)
                    IN  DecodeMembers(Tail(ms), [fr EXCEPT !.ID = u.v], ok /\ u.ok)
               [] m.k = "dst" ->
                    LET u == UnmarshalString(j, fr.Destination)
                    IN  DecodeMembers(Tail(ms), [fr EXCEPT !.Destination = u.v], ok /\ u.ok)
               [] m.k = "result" ->
                    LET u == UnmarshalMap(j, fr.Result)
                    IN  DecodeMembers(Tail(ms), [fr EXCEPT !.Result = u.v], ok /\ u.ok)
               [] OTHER -> DecodeMembers(Tail(ms), fr, ok)

\* json.Unmarshal(resBytes, &res), res the zero ResponseFrame
UnmarshalResponse(b) ==
    IF ~IsObjectText(b) THEN [ok |-> FALSE, frame |-> ZeroResponse]
    ELSE DecodeMembers(SubSeq(b, 2, Len(b) - 1), ZeroResponse, TRUE)

\* ------------------------------------------------------------------- state
VARIABLES
    conn,       \* the client: "uninit", "connected" (Setup returned nil), "disconnected"
    spc,        \* Setup: "idle" (not running), or the discovery it is about to do
    link,       \* the connection to the device: "down", "up"
    serr,       \* the error the last Setup returned, its messages outermost first; <<>>: nil
    tout,       \* what the last Teardown returned: "none", "nil", "err"
    mtu,        \* the MTU the connection's characteristics report
    faults,     \* transport faults so far: errors, short writes, reads of no byte
    devExpect,  \* device: the payload length announced on Tx-length, -1 when none
    devIn,      \* device: the payload units received on Data since the announcement
    rxOut,      \* device: the bytes readable from Rx-length
    dataOut,    \* device: the units readable from Data
    answered,   \* per caller: the device has answered the request of its Call
    pc,         \* per caller: the place in Call / Roundtrip / writeToChar / readFromChar
    req,        \* Call: the RequestFrame
    reqBytes,   \* Roundtrip: the encoded request
    step,       \* Roundtrip: the step in progress, the reader's or writer's return address
    char,       \* writeToChar / readFromChar: the characteristic ("tx", "rx", "data")
    mtuL,       \* writeToChar / readFromChar: the local mtu
    data,       \* writeToChar: the bytes still to be written
    wIn,        \* the bytes writeToChar was called with
    wlog,       \* the chunk writes writeToChar issued: [chunk, n], n the count reported (-1: an error)
    want,       \* the length readFromChar was called with
    need,       \* readFromChar: length, counted down by every read
    res,        \* readFromChar: the bytes accumulated; then Roundtrip's resBytes
    rfail,      \* an underlying read of this readFromChar returned an error
    got,        \* the units the characteristic delivered to readFromChar, in order
    reads,      \* the underlying reads this readFromChar issued
    resp,       \* Roundtrip: the decoded ResponseFrame
    io,         \* the characteristic I/O of the Call in progress, one tag per run of like operations
    out,        \* the outcome of the caller's last Call (or of the harness's direct call)
    rpc,        \* run: its place, "off" when the program is not the one driving
    rc,         \* run: the return code
    log,        \* run: the failures logged
    cx,         \* codec: a uint32
    cb,         \* codec: the bytes of cx, <<>> before they are made
    cy,         \* codec: the uint32 read back from cb
    cj,         \* codec: the JSON value a response carries as its result
    cv,         \* codec: the response decoded
    cj2         \* codec: the decoded result, encoded again

lifeVars == << spc, link, serr, tout >>
devVars == << devExpect, devIn, rxOut, dataOut, answered >>
writerVars == << data, wIn, wlog >>
readerVars == << want, need, res, rfail, got, reads >>
runVars == << rpc, rc, log >>
codecVars == << cx, cb, cy, cj, cv, cj2 >>

\* What is left alone by the steps of a Call and by the device.
restVars == << lifeVars, runVars, codecVars >>

vars == << conn, lifeVars, mtu, faults, devVars, pc, req, reqBytes, step, char,
           mtuL, writerVars, readerVars, resp, io, out, runVars, codecVars >>

\* What a Call returned: (result, nil), or (nil, err) with the error's text
\* (the step's message and the message it wraps), or a panic.
NoOutcome == [state |-> "none", result |-> "nil", err |-> "", cause |-> ""]
OkOutcome(r) == [state |-> "ok", result |-> r, err |-> "", cause |-> ""]
ErrOutcome(e, c) == [state |-> "err", result |-> "nil", err |-> e, cause |-> c]
PanicOutcome == [state |-> "panic", result |-> "nil", err |-> "", cause |-> ""]

ClientInit ==
    /\ pc = [p \in Callers |-> "idle"]
    /\ req = [p \in Callers |-> RequestFrame(0, "", "nil")]
    /\ reqBytes = [p \in Callers |-> <<>>]
    /\ step = [p \in Callers |-> ""]
    /\ char = [p \in Callers |-> ""]
    /\ mtuL = [p \in Callers |-> 0]
    /\ data = [p \in Callers |-> <<>>]
    /\ wIn = [p \in Callers |-> <<>>]
    /\ wlog = [p \in Callers |-> <<>>]
    /\ want = [p \in Callers |-> 0]
    /\ need = [p \in Callers |-> 0]
    /\ res = [p \in Callers |-> <<>>]
    /\ rfail = [p \in Callers |-> FALSE]
    /\ got = [p \in Callers |-> <<>>]
    /\ reads = [p \in Callers |-> 0]
    /\ resp = [p \in Callers |-> ZeroResponse]
    /\ io = [p \in Callers |-> <<>>]
    /\ out = [p \in Callers |-> NoOutcome]

DeviceInit ==
    /\ devExpect = -1
    /\ devIn = <<>>
    /\ rxOut = <<>>
    /\ dataOut = <<>>
    /\ answered = [p \in Callers |-> FALSE]

\* No Setup and no Teardown has run.
LifeInit ==
    /\ spc = "idle"
    /\ link = "down"
    /\ serr = <<>>
    /\ tout = "none"

\* The client is used as a library: run is not the one driving it.
RunOff ==
    /\ rpc = "off"
    /\ rc = 0
    /\ log = {}

\* A uint32 that has not been read, a response that has not been decoded, a
\* result that has not been encoded.
NoUint32 == [hi |-> -1, lo |-> -1]
NoFrame == [ok |-> FALSE, frame |-> [ID |-> 0, Destination |-> "none", Result |-> "nil"]]
NoJSON == [t |-> "none", s |-> ""]

\* The codec is not exercised by itself.
CodecOff ==
    /\ cx = Uint32(0)
    /\ cb = <<>>
    /\ cy = NoUint32
    /\ cj = JNull
    /\ cv = NoFrame
    /\ cj2 = NoJSON

\* The state after construction: &Client{Address: addr}, nothing connected.
Init ==
    /\ conn = "uninit"
    /\ mtu = 0
    /\ faults = 0
    /\ LifeInit
    /\ DeviceInit
    /\ ClientInit
    /\ RunOff
    /\ CodecOff

\* ---------------------------------------------------------------- helpers
Idle == \A q \in Callers : pc[q] = "idle"

\* One more operation on a characteristic: a tag per run of like operations.
Tagged(h, tag) == IF h # <<>> /\ h[Len(h)] = tag THEN h ELSE Append(h, tag)

\* StepError with the payload write's message copied from the length write's.
StepErrorMislabelled(s) ==
    CASE s = "marshal" -> "marshalling request"
      [] s = "txlen" -> "write request length to TX control characteristic"
      [] s = "txdata" -> "write request length to TX control characteristic"
      [] s = "rxlen" -> "read response length from RX control characteristic"
      [] s = "rxdata" -> "read response from data characteristic"
      [] s = "unmarshal" -> "unmarshal response"
      [] OTHER -> ""

\* The message Roundtrip wraps the error of step s in.
StepError(s) ==
    CASE s = "marshal" -> "marshalling request"
      [] s = "txlen" -> "write request length to TX control characteristic"
      [] s = "txdata" -> "write request to data characteristic"
      [] s = "rxlen" -> "read response length from RX control characteristic"
      [] s = "rxdata" -> "read response from data characteristic"
      [] s = "unmarshal" -> "unmarshal response"
      [] OTHER -> ""

\* ReturnErr with Call trying the roundtrip again instead of returning.
ReturnErrRetries(p, s, c) ==
    /\ pc' = [pc EXCEPT ![p] = "marshal"]
    /\ out' = out

\* Step s fails with cause c: Roundtrip returns the wrapped error, and Call
\* returns (nil, err).
ReturnErr(p, s, c) ==
    /\ pc' = [pc EXCEPT ![p] = "idle"]
    /\ out' = [out EXCEPT ![p] = ErrOutcome(StepError(s), c)]

\* writeToChar(char, d), called for Roundtrip's step s
EnterWrite(p, s, c, d) ==
    /\ pc' = [pc EXCEPT ![p] = "w_mtu"]
    /\ step' = [step EXCEPT ![p] = s]
    /\ char' = [char EXCEPT ![p] = c]
    /\ data' = [data EXCEPT ![p] = d]
    /\ wIn' = [wIn EXCEPT ![p] = d]
    /\ wlog' = [wlog EXCEPT ![p] = <<>>]

\* readFromChar(char, length), called for Roundtrip's step s
EnterRead(p, s, c, length) ==
    /\ pc' = [pc EXCEPT ![p] = "r_mtu"]
    /\ step' = [step EXCEPT ![p] = s]
    /\ char' = [char EXCEPT ![p] = c]
    /\ want' = [want EXCEPT ![p] = length]
    /\ need' = [need EXCEPT ![p] = length]
    /\ res' = [res EXCEPT ![p] = <<>>]
    /\ rfail' = [rfail EXCEPT ![p] = FALSE]
    /\ got' = [got EXCEPT ![p] = <<>>]
    /\ reads' = [reads EXCEPT ![p] = 0]

\* The device takes a write: a write of 4 bytes to Tx-length announces a
\* payload, any other write to it announces nothing; a write to Data adds to
\* the payload received.
DeviceTakes(c, bytes) ==
    /\ devExpect' = IF c = "tx" /\ Len(bytes) = 4 THEN ToInt(fromBytes(bytes)) ELSE devExpect
    /\ devIn' = IF c = "tx" /\ Len(bytes) = 4 THEN <<>>
                ELSE IF c = "data" THEN devIn \o bytes ELSE devIn
    /\ UNCHANGED << rxOut, dataOut, answered >>

\* What a characteristic holds for reading.
Readable(c) == IF c = "rx" THEN rxOut ELSE IF c = "data" THEN dataOut ELSE <<>>

\* The device gives the first n units of a characteristic to a read.
DeviceGives(c, n) ==
    /\ rxOut' = IF c = "rx" THEN Drop(rxOut, n) ELSE rxOut
    /\ dataOut' = IF c = "data" THEN Drop(dataOut, n) ELSE dataOut
    /\ UNCHANGED << devExpect, devIn, answered >>

\* ----------------------------------------------------------- Setup, Teardown
\* What is left alone by Setup and Teardown.
callVars == << devVars, pc, req, reqBytes, step, char, mtuL, writerVars,
               readerVars, resp, io, out >>

\* Setup returns the error e of a discovery: the deferred function
\* disconnects from the device, and when that fails too the error returned
\* wraps both, the disconnect's and e. The client's fields are not touched.
SetupReturns(e) ==
    /\ spc' = "idle"
    /\ \/ /\ link' = "down"
          /\ serr' = << e >>
       \/ /\ link' = link
          /\ serr' = << "disconnect from device", e >>
    /\ UNCHANGED << conn, mtu >>

\* Setup, to its return or to the discovery of the services: the address, the
\* adapter and the UUIDs are resolved and the device is connected to, or one of
\* these fails and Setup returns its error.
SetupConnect ==
    /\ conn = "uninit"
    /\ spc = "idle"
    /\ Idle
    /\ \/ /\ link' = "up"
          /\ spc' = "services"
          /\ serr' = <<>>
          /\ UNCHANGED faults
       \/ /\ faults < MaxFaults
          /\ faults' = faults + 1
          /\ serr' = << "connect to device" >>
          /\ UNCHANGED << spc, link >>
    /\ UNCHANGED << conn, mtu, tout, callVars, runVars, codecVars >>

\* Setup, from the connection to the discovery of the characteristics.
SetupDiscoverServices ==
    /\ spc = "services"
    /\ \/ /\ spc' = "chars"
          /\ UNCHANGED << faults, link, serr, conn, mtu >>
       \/ /\ faults < MaxFaults
          /\ faults' = faults + 1
          /\ SetupReturns("discover services")
    /\ UNCHANGED << tout, callVars, runVars, codecVars >>

\* SetupDiscoverCharacteristics storing the device in the client before the
\* characteristics are discovered.
SetupStoresEarly ==
    /\ spc = "chars"
    /\ \/ /\ conn' = "connected"
          /\ \E m \in MTUs : mtu' = m
          /\ spc' = "idle"
          /\ UNCHANGED << faults, link, serr >>
       \/ /\ faults < MaxFaults
          /\ faults' = faults + 1
          /\ spc' = "idle"
          /\ conn' = "disconnected"
          /\ \/ /\ link' = "down"
                /\ serr' = << "discover characteristics" >>
             \/ /\ link' = link
                /\ serr' = << "disconnect from device", "discover characteristics" >>
          /\ UNCHANGED mtu
    /\ UNCHANGED << tout, callVars, runVars, codecVars >>

\* Setup, from the discovery of the characteristics to its return: the device
\* and the three characteristics are stored in the client and Setup returns
\* nil, or the discovery fails.
SetupDiscoverCharacteristics ==
    /\ spc = "chars"
    /\ \/ /\ conn' = "connected"
          /\ \E m \in MTUs : mtu' = m
          /\ spc' = "idle"
          /\ UNCHANGED << faults, link, serr >>
       \/ /\ faults < MaxFaults
          /\ faults' = faults + 1
          /\ SetupReturns("discover characteristics")
    /\ UNCHANGED << tout, callVars, runVars, codecVars >>

\* Setup: the device is connected and its characteristics found, or an error.
Setup ==
    \/ SetupConnect
    \/ SetupDiscoverServices
    \/ SetupDiscoverCharacteristics

\* Teardown: r.remoteDevice.Disconnect()
Teardown ==
    /\ conn = "connected"
    /\ Idle
    /\ \/ /\ conn' = "disconnected"
          /\ link' = "down"
          /\ tout' = "nil"
          /\ UNCHANGED faults
       \/ /\ faults < MaxFaults
          /\ faults' = faults + 1
          /\ tout' = "err"
          /\ UNCHANGED << conn, link >>
    /\ UNCHANGED << mtu, spc, serr, callVars >>

\* ------------------------------------------------------------------- Call
\* Call behind a lock of the client: it starts only when no other Call runs.
CallLocked(p, method, params) ==
    /\ \A q \in Callers : pc[q] = "idle"
    /\ \E id \in IDs : req' = [req EXCEPT ![p] = RequestFrame(id, method, params)]
    /\ pc' = [pc EXCEPT ![p] = "marshal"]
    /\ io' = [io EXCEPT ![p] = <<>>]
    /\ out' = [out EXCEPT ![p] = NoOutcome]
    /\ reqBytes' = [reqBytes EXCEPT ![p] = <<>>]
    /\ step' = [step EXCEPT ![p] = ""]
    /\ char' = [char EXCEPT ![p] = ""]
    /\ mtuL' = [mtuL EXCEPT ![p] = 0]
    /\ data' = [data EXCEPT ![p] = <<>>]
    /\ wIn' = [wIn EXCEPT ![p] = <<>>]
    /\ wlog' = [wlog EXCEPT ![p] = <<>>]
    /\ want' = [want EXCEPT ![p] = 0]
    /\ need' = [need EXCEPT ![p] = 0]
    /\ res' = [res EXCEPT ![p] = <<>>]
    /\ rfail' = [rfail EXCEPT ![p] = FALSE]
    /\ got' = [got EXCEPT ![p] = <<>>]
    /\ reads' = [reads EXCEPT ![p] = 0]
    /\ resp' = [resp EXCEPT ![p] = ZeroResponse]
    /\ answered' = [answered EXCEPT ![p] = FALSE]
    /\ UNCHANGED << conn, mtu, faults, devExpect, devIn, rxOut, dataOut >>

\* Call, to its call of Roundtrip: the id is drawn, the request frame built.
Call(p, method, params) ==
    /\ pc[p] = "idle"
    /\ \E id \in IDs : req' = [req EXCEPT ![p] = RequestFrame(id, method, params)]
    /\ pc' = [pc EXCEPT ![p] = "marshal"]
    /\ io' = [io EXCEPT ![p] = <<>>]
    /\ out' = [out EXCEPT ![p] = NoOutcome]
    /\ reqBytes' = [reqBytes EXCEPT ![p] = <<>>]
    /\ step' = [step EXCEPT ![p] = ""]
    /\ char' = [char EXCEPT ![p] = ""]
    /\ mtuL' = [mtuL EXCEPT ![p] = 0]
    /\ data' = [data EXCEPT ![p] = <<>>]
    /\ wIn' = [wIn EXCEPT ![p] = <<>>]
    /\ wlog' = [wlog EXCEPT ![p] = <<>>]
    /\ want' = [want EXCEPT ![p] = 0]
    /\ need' = [need EXCEPT ![p] = 0]
    /\ res' = [res EXCEPT ![p] = <<>>]
    /\ rfail' = [rfail EXCEPT ![p] = FALSE]
    /\ got' = [got EXCEPT ![p] = <<>>]
    /\ reads' = [reads EXCEPT ![p] = 0]
    /\ resp' = [resp EXCEPT ![p] = ZeroResponse]
    /\ answered' = [answered EXCEPT ![p] = FALSE]
    /\ UNCHANGED << conn, mtu, faults, devExpect, devIn, rxOut, dataOut >>

\* Correlate without the check of the destination.
CorrelateIdOnly(id, rs) ==
    IF id # rs.ID THEN ErrOutcome("wrong response ID", "")
    ELSE OkOutcome(rs.Result)

\* Correlate without the check of the id.
CorrelateDstOnly(id, rs) ==
    IF SourceName # rs.Destination THEN ErrOutcome("wrong response destination", "")
    ELSE OkOutcome(rs.Result)

\* Correlate handing the decoded result out together with the error.
CorrelatePartial(id, rs) ==
    IF id # rs.ID THEN [ErrOutcome("wrong response ID", "") EXCEPT !.result = rs.Result]
    ELSE IF SourceName # rs.Destination
         THEN [ErrOutcome("wrong response destination", "") EXCEPT !.result = rs.Result]
    ELSE OkOutcome(rs.Result)

\* Call's validation of the response against the id it drew and SourceName.
Correlate(id, rs) ==
    IF id # rs.ID THEN ErrOutcome("wrong response ID", "")
    ELSE IF SourceName # rs.Destination THEN ErrOutcome("wrong response destination", "")
    ELSE OkOutcome(rs.Result)

\* Call, from Roundtrip's return to its own.
CallCheck(p) ==
    /\ pc[p] = "check"
    /\ pc' = [pc EXCEPT ![p] = "idle"]
    /\ out' = [out EXCEPT ![p] = Correlate(req[p].ID, resp[p])]
    /\ UNCHANGED << conn, mtu, faults, devVars, req, reqBytes, step, char,
                    mtuL, writerVars, readerVars, resp, io >>
    /\ UNCHANGED restVars

\* -------------------------------------------------------------- Roundtrip
\* Roundtrip, to its first writeToChar: the request is encoded and its length.
RoundtripMarshal(p) ==
    /\ pc[p] = "marshal"
    /\ LET m == MarshalRequest(req[p])
       IN  IF ~m.ok
           THEN /\ ReturnErr(p, "marshal", "")
                /\ UNCHANGED << reqBytes, step, char, writerVars >>
           ELSE /\ reqBytes' = [reqBytes EXCEPT ![p] = m.bytes]
                /\ EnterWrite(p, "txlen", "tx", toBytes(Uint32(Len(m.bytes))))
                /\ UNCHANGED out
    /\ UNCHANGED << conn, mtu, faults, devVars, req, mtuL, readerVars, resp, io >>
    /\ UNCHANGED restVars

\* Roundtrip, from the read of the response to Call: the response is decoded.
RoundtripUnmarshal(p) ==
    /\ pc[p] = "unmarshal"
    /\ LET u == UnmarshalResponse(res[p])
       IN  IF ~u.ok
           THEN /\ ReturnErr(p, "unmarshal", "")
                /\ UNCHANGED resp
           ELSE /\ resp' = [resp EXCEPT ![p] = u.frame]
                /\ pc' = [pc EXCEPT ![p] = "check"]
                /\ UNCHANGED out
    /\ UNCHANGED << conn, mtu, faults, devVars, req, reqBytes, step, char,
                    mtuL, writerVars, readerVars, io >>
    /\ UNCHANGED restVars

\* ------------------------------------------------------------------ GetMTU
\* char.GetMTU() answers the connection's MTU on a connected client; it may
\* fail there, it fails on a disconnected one, and on the zero handles of a
\* client never set up it fails or panics.
GetMTUFails(p) ==
    /\ \/ /\ conn = "connected"
          /\ faults < MaxFaults
          /\ faults' = faults + 1
       \/ /\ conn # "connected"
          /\ UNCHANGED faults
    /\ ReturnErr(p, step[p], "get MTU")
    /\ UNCHANGED mtuL

GetMTUPanics(p) ==
    /\ conn = "uninit"
    /\ pc' = [pc EXCEPT ![p] = "panicked"]
    /\ out' = [out EXCEPT ![p] = PanicOutcome]
    /\ UNCHANGED << faults, mtuL >>

GetMTUAnswers(p, loop) ==
    /\ conn = "connected"
    /\ mtuL' = [mtuL EXCEPT ![p] = mtu]
    /\ pc' = [pc EXCEPT ![p] = loop]
    /\ UNCHANGED << faults, out >>

\* ------------------------------------------------------------- writeToChar
\* the loop's condition: len(data) > 0
WriteMore(d) == Len(d) > 0

\* NextChunk cutting one byte late: chunk[:mtu+1]
NextChunkOffByOne(d, m) == IF Len(d) > m THEN SubSeq(d, 1, m + 1) ELSE d

\* chunk := data; if len(chunk) > int(mtu) { chunk = chunk[:mtu] }
NextChunk(d, m) == IF Len(d) > m THEN SubSeq(d, 1, m) ELSE d

\* WriteIsShort that takes only a write of nothing for a short one: n == 0
WriteIsShortOnlyIfNone(n, chunk) == n = 0

\* if n != len(chunk) { return error }
WriteIsShort(n, chunk) == n # Len(chunk)

\* data = data[len(chunk):]
AfterChunk(d, chunk) == SubSeq(d, Len(chunk) + 1, Len(d))

\* WriteGetMTU without the check of GetMTU's error: the loop is entered with
\* whatever mtu came back, 0 with an error.
WriteGetMTUUnchecked(p) ==
    /\ pc[p] = "w_mtu"
    /\ mtuL' = [mtuL EXCEPT ![p] = IF conn = "connected" THEN mtu ELSE 0]
    /\ pc' = [pc EXCEPT ![p] = "w_loop"]
    /\ UNCHANGED << conn, mtu, faults, out, devVars, req, reqBytes, step, char,
                    writerVars, readerVars, resp, io >>
    /\ UNCHANGED restVars

\* writeToChar, to its loop: mtu, err := char.GetMTU()
WriteGetMTU(p) ==
    /\ pc[p] = "w_mtu"
    /\ \/ GetMTUAnswers(p, "w_loop")
       \/ GetMTUFails(p)
       \/ GetMTUPanics(p)
    /\ UNCHANGED << conn, mtu, devVars, req, reqBytes, step, char,
                    writerVars, readerVars, resp, io >>
    /\ UNCHANGED restVars

\* One turn of writeToChar's loop: a chunk is written. The characteristic
\* reports n bytes written (all of the chunk, or fewer), or an error.
WriteChunk(p) ==
    /\ pc[p] = "w_loop"
    /\ WriteMore(data[p])
    /\ LET chunk == NextChunk(data[p], mtuL[p])
       IN  /\ io' = [io EXCEPT ![p] = Tagged(@, << "write", char[p] >>)]
           /\ \/ \E n \in 0..Len(chunk) :
                    /\ n < Len(chunk) => faults < MaxFaults
                    /\ faults' = IF n < Len(chunk) THEN faults + 1 ELSE faults
                    /\ DeviceTakes(char[p], SubSeq(chunk, 1, n))
                    /\ wlog' = [wlog EXCEPT ![p] = Append(@, [chunk |-> chunk, n |-> n])]
                    /\ IF WriteIsShort(n, chunk)
                       THEN /\ ReturnErr(p, step[p], "short write")
                            /\ UNCHANGED data
                       ELSE /\ data' = [data EXCEPT ![p] = AfterChunk(@, chunk)]
                            /\ UNCHANGED << pc, out >>
              \/ /\ faults < MaxFaults
                 /\ faults' = faults + 1
                 /\ wlog' = [wlog EXCEPT ![p] = Append(@, [chunk |-> chunk, n |-> -1])]
                 /\ ReturnErr(p, step[p], "write chunk")
                 /\ UNCHANGED << data, devVars >>
    /\ UNCHANGED << conn, mtu, req, reqBytes, step, char, mtuL, wIn,
                    readerVars, resp >>
    /\ UNCHANGED restVars

\* WriteReturn with Roundtrip reading the response's length right after it
\* wrote the request's length, before the payload is written.
WriteReturnReadsFirst(p) ==
    /\ pc[p] = "w_loop"
    /\ ~WriteMore(data[p])
    /\ CASE step[p] = "txlen" ->
              /\ EnterRead(p, "rxlen", "rx", 4)
              /\ UNCHANGED << out, writerVars >>
         [] OTHER ->
              /\ pc' = [pc EXCEPT ![p] = "idle"]
              /\ out' = [out EXCEPT ![p] = OkOutcome("nil")]
              /\ UNCHANGED << step, char, writerVars, readerVars >>
    /\ UNCHANGED << conn, mtu, faults, devVars, req, reqBytes, mtuL, resp, io >>
    /\ UNCHANGED restVars

\* writeToChar returns nil, and its caller goes on: Roundtrip to its next
\* step, a direct call to its end.
WriteReturn(p) ==
    /\ pc[p] = "w_loop"
    /\ ~WriteMore(data[p])
    /\ CASE step[p] = "txlen" ->
              /\ EnterWrite(p, "txdata", "data", reqBytes[p])
              /\ UNCHANGED << out, readerVars >>
         [] step[p] = "txdata" ->
              /\ EnterRead(p, "rxlen", "rx", 4)
              /\ UNCHANGED << out, writerVars >>
         [] OTHER ->
              /\ pc' = [pc EXCEPT ![p] = "idle"]
              /\ out' = [out EXCEPT ![p] = OkOutcome("nil")]
              /\ UNCHANGED << step, char, writerVars, readerVars >>
    /\ UNCHANGED << conn, mtu, faults, devVars, req, reqBytes, mtuL, resp, io >>
    /\ UNCHANGED restVars

\* ------------------------------------------------------------ readFromChar
\* ReadMore going round once more at 0: length >= 0
ReadMoreInclusive(length) == length >= 0

\* the loop's condition: length > 0
ReadMore(length) == length > 0

\* res = append(res, buf[:n]...)
Accumulate(r, buf, n) == r \o SubSeq(buf, 1, n)

\* length -= n
Remaining(length, n) == length - n

\* return res, nil
ReadResult(r, length) == r

\* ReadFails with the error dropped: the loop goes on.
ReadFailsIgnored(p) == UNCHANGED << pc, out >>

\* if err != nil { return nil, fmt.Errorf("read from characteristic: %w", err) }
ReadFails(p) == ReturnErr(p, step[p], "read from characteristic")

\* readFromChar, to its loop: mtu, err := char.GetMTU()
ReadGetMTU(p) ==
    /\ pc[p] = "r_mtu"
    /\ \/ GetMTUAnswers(p, "r_loop")
       \/ GetMTUFails(p)
       \/ GetMTUPanics(p)
    /\ UNCHANGED << conn, mtu, devVars, req, reqBytes, step, char,
                    writerVars, readerVars, resp, io >>
    /\ UNCHANGED restVars

\* One turn of readFromChar's loop: a read into a buffer of mtu bytes. The
\* characteristic gives n of the units it holds, 0 <= n <= mtu, or an error.
ReadChunk(p) ==
    /\ pc[p] = "r_loop"
    /\ ReadMore(need[p])
    /\ io' = [io EXCEPT ![p] = Tagged(@, << "read", char[p] >>)]
    /\ \/ \E n \in 0..Min(mtuL[p], Len(Readable(char[p]))) :
            LET buf == SubSeq(Readable(char[p]), 1, n)
            IN  /\ n = 0 => faults < MaxFaults
                /\ faults' = IF n = 0 THEN faults + 1 ELSE faults
                /\ DeviceGives(char[p], n)
                /\ res' = [res EXCEPT ![p] = Accumulate(@, buf, n)]
                /\ need' = [need EXCEPT ![p] = Remaining(@, n)]
                /\ got' = [got EXCEPT ![p] = @ \o buf]
                /\ UNCHANGED << pc, out, rfail >>
       \/ /\ faults < MaxFaults
          /\ faults' = faults + 1
          /\ rfail' = [rfail EXCEPT ![p] = TRUE]
          /\ ReadFails(p)
          /\ UNCHANGED << res, need, got, devVars >>
    /\ reads' = [reads EXCEPT ![p] = @ + 1]
    /\ UNCHANGED << conn, mtu, req, reqBytes, step, char, mtuL, want,
                    writerVars, resp >>
    /\ UNCHANGED restVars

\* readFromChar returns its buffer, and its caller goes on: Roundtrip to the
\* read of the payload or to the decoding, a direct call to its end.
ReadReturn(p) ==
    /\ pc[p] = "r_loop"
    /\ ~ReadMore(need[p])
    /\ LET r == ReadResult(res[p], want[p])
       IN  CASE step[p] = "rxlen" ->
                 /\ EnterRead(p, "rxdata", "data", ToInt(fromBytes(r)))
                 /\ UNCHANGED out
            [] step[p] = "rxdata" ->
                 /\ pc' = [pc EXCEPT ![p] = "unmarshal"]
                 /\ res' = [res EXCEPT ![p] = r]
                 /\ UNCHANGED << out, step, char, want, need, rfail, got, reads >>
            [] OTHER ->
                 /\ pc' = [pc EXCEPT ![p] = "idle"]
                 /\ res' = [res EXCEPT ![p] = r]
                 /\ out' = [out EXCEPT ![p] = OkOutcome("nil")]
                 /\ UNCHANGED << step, char, want, need, rfail, got, reads >>
    /\ UNCHANGED << conn, mtu, faults, devVars, req, reqBytes, mtuL,
                    writerVars, resp, io >>
    /\ UNCHANGED restVars

\* ------------------------------------------------------------------ device
\* A response frame as the device encodes it.
DeviceFrame(id, dst, key, j) ==
    << Open, Member("id", JNum(id)), Member("dst", JStr(dst)), Member(key, j), Close >>

\* The member a device response carries besides id and dst: a result, an
\* error envelope (as the "error" member, or as the result), or a result of
\* the wrong kind.
DeviceBodies ==
    { << "result", MarshalMap("a1").j >>, << "error", MarshalMap("envelope").j >>,
      << "result", MarshalMap("envelope").j >>, << "result", JStr("x") >> }

\* What the device may answer: a response for this client, a result for
\* another client, bytes that are no JSON, or nothing at all (a length of 0).
DeviceResponses ==
    { DeviceFrame(i, SourceName, b[1], b[2]) : i \in IDs, b \in DeviceBodies }
    \cup { DeviceFrame(i, "other", "result", MarshalMap("a1").j) : i \in IDs }
    \cup { << Garbage >>, <<>> }

\* The device has the payload it was announced and nothing of an earlier
\* response is left to read, and it answers with one of the responses R: the
\* response's length becomes readable from Rx-length, the response from Data.
DeviceAnswers(R) ==
    /\ devExpect >= 0
    /\ Len(devIn) >= devExpect
    /\ rxOut = <<>>
    /\ dataOut = <<>>
    /\ \E r \in R :
          /\ rxOut' = rxOut \o toBytes(Uint32(Len(r)))
          /\ dataOut' = dataOut \o r
    /\ answered' = [p \in Callers |->
                        answered[p] \/ (pc[p] # "idle" /\ devIn = reqBytes[p])]
    /\ devExpect' = -1
    /\ devIn' = <<>>
    /\ UNCHANGED << conn, mtu, faults, pc, req, reqBytes, step, char, mtuL,
                    writerVars, readerVars, resp, io, out >>
    /\ UNCHANGED restVars

\* The device answers, whatever it likes.
DeviceResponds == DeviceAnswers(DeviceResponses)

\* ------------------------------------------------------------ specification
CallParams == {"empty", "chan"}

\* The steps of a caller's Call.
CallSteps(p) ==
    \/ RoundtripMarshal(p)
    \/ WriteGetMTU(p)
    \/ WriteChunk(p)
    \/ WriteReturn(p)
    \/ ReadGetMTU(p)
    \/ ReadChunk(p)
    \/ ReadReturn(p)
    \/ RoundtripUnmarshal(p)
    \/ CallCheck(p)

\* The client used as a library, its operations called one at a time: a Call
\* starts when no other is in progress and no Setup is.
Next ==
    \/ Setup
    \/ Teardown /\ UNCHANGED << runVars, codecVars >>
    \/ \E p \in SerialCallers :
          \/ /\ Idle /\ spc = "idle"
             /\ \E m \in Methods, a \in CallParams : Call(p, m, a)
             /\ UNCHANGED restVars
          \/ CallSteps(p)
    \/ DeviceResponds

Spec == Init /\ [][Next]_vars

\* ---------------------------------------------------------------------- run
\* The command line program: run(addr, method, params).

\* The -params argument, as the JSON value it is: null (the default), an
\* object, or a value that is no object.
RunParamTexts == { JNull, JObj("{}"), JObj("{a:1,b:[1,2,3]}"), JStr("x") }

\* run is entered: rpcClient := &shellyrpc.Client{Address: addr}
RunInit ==
    /\ conn = "uninit"
    /\ mtu = 0
    /\ faults = 0
    /\ LifeInit
    /\ DeviceInit
    /\ ClientInit
    /\ rpc = "setup"
    /\ rc = 0
    /\ log = {}
    /\ CodecOff

\* err := rpcClient.Setup(), at work
RunSetup ==
    /\ rpc = "setup"
    /\ serr = <<>>
    /\ Setup

\* Setup returned an error: it is logged and run returns 10.
RunSetupFailed ==
    /\ rpc = "setup"
    /\ spc = "idle"
    /\ serr # <<>>
    /\ log' = log \cup {"Failed to setup RPC client"}
    /\ rc' = 10
    /\ rpc' = "exit"
    /\ UNCHANGED << conn, mtu, faults, lifeVars, callVars, codecVars >>

\* Setup returned nil and the Teardown is deferred. The params are decoded
\* into an empty map: a failure is logged and run returns 20; or Call is
\* called with the map.
RunParams ==
    /\ rpc = "setup"
    /\ spc = "idle"
    /\ conn = "connected"
    /\ \E j \in RunParamTexts :
          LET u == UnmarshalMap(j, "empty")
          IN  IF ~u.ok
              THEN /\ log' = log \cup {"Failed to unmarshal params"}
                   /\ rc' = 20
                   /\ rpc' = "teardown"
                   /\ UNCHANGED << conn, mtu, faults, callVars >>
              ELSE /\ \E m \in Methods : Call(Direct, m, u.v)
                   /\ rpc' = "call"
                   /\ UNCHANGED << rc, log >>
    /\ UNCHANGED << lifeVars, codecVars >>

\* rpcClient.Call, at work
RunCall ==
    /\ rpc = "call"
    /\ CallSteps(Direct)

\* Call returned. An error that is an RPCError becomes the result and the
\* return code 30; any other error is logged and run returns 40.
RunCallReturned ==
    /\ rpc = "call"
    /\ pc[Direct] = "idle"
    /\ out[Direct].state \in {"ok", "err"}
    /\ IF out[Direct].state = "err"
       THEN IF out[Direct].err = "RPCError"
            THEN /\ rc' = 30
                 /\ rpc' = "encode"
                 /\ UNCHANGED log
            ELSE /\ log' = log \cup {"Failed to call"}
                 /\ rc' = 40
                 /\ rpc' = "teardown"
       ELSE /\ rpc' = "encode"
            /\ UNCHANGED << rc, log >>
    /\ UNCHANGED << conn, mtu, faults, lifeVars, callVars, codecVars >>

\* The result is encoded to the standard output, and run returns rc; or the
\* encoding fails, which is logged, and run returns 50.
RunEncode ==
    /\ rpc = "encode"
    /\ \/ /\ rpc' = "teardown"
          /\ UNCHANGED << rc, log, faults >>
       \/ /\ faults < MaxFaults
          /\ faults' = faults + 1
          /\ log' = log \cup {"Failed to encode response"}
          /\ rc' = 50
          /\ rpc' = "teardown"
    /\ UNCHANGED << conn, mtu, lifeVars, callVars, codecVars >>

\* run returns: the deferred function calls Teardown, and when that fails
\* logs it and sets the return code to 90.
RunTeardown ==
    /\ rpc = "teardown"
    /\ Teardown
    /\ IF tout' = "err"
       THEN /\ log' = log \cup {"Failed to teardown RPC client"}
            /\ rc' = 90
       ELSE UNCHANGED << rc, log >>
    /\ rpc' = "exit"
    /\ UNCHANGED codecVars

RunNext ==
    \/ RunSetup
    \/ RunSetupFailed
    \/ RunParams
    \/ RunCall
    \/ DeviceResponds
    \/ RunCallReturned
    \/ RunEncode
    \/ RunTeardown

SpecRun == RunInit /\ [][RunNext]_vars

\* -------------------------------------------------- two goroutines, one Client
\* A client set up, on a transport that does not fail.
ConcInit ==
    /\ conn = "connected"
    /\ mtu = MaxMTU
    /\ faults = MaxFaults
    /\ spc = "idle"
    /\ link = "up"
    /\ serr = <<>>
    /\ tout = "none"
    /\ DeviceInit
    /\ ClientInit
    /\ RunOff
    /\ CodecOff

\* What a device in order answers: a result for this client, under some id.
ProperResponses ==
    { DeviceFrame(i, SourceName, "result", MarshalMap("a1").j) : i \in IDs }

\* The device answers a request it has received in full.
ConcDeviceResponds == DeviceAnswers(ProperResponses)

\* Each goroutine calls Call once, when it likes, and runs at its own pace;
\* nothing in Call, Roundtrip, writeToChar or readFromChar waits for the other.
ConcNext ==
    \/ \E p \in Callers :
          \/ /\ out[p] = NoOutcome
             /\ \E m \in Methods : Call(p, m, "empty")
             /\ UNCHANGED restVars
          \/ CallSteps(p)
    \/ ConcDeviceResponds

SpecConc == ConcInit /\ [][ConcNext]_vars

\* ---------------------------------------------------------- the codecs alone
\* The uint32 values whose halves are 0, 1, 255, 256 or 65535: among them 0,
\* 1, 65535, 65536, 16777216 and 4294967295.
Uint32Samples == { [hi |-> h, lo |-> l] : h, l \in {0, 1, 255, 256, 65535} }

\* JSON values of every kind: null, objects, a string, an array, a number.
JSONSamples ==
    { JNull, JObj("{}"), JObj("{a:1,b:[1,2,3]}"), JObj("{a:{b:{c:[{d:null}]}}}"),
      JStr("x"), JArr("[1,2,3]"), JNum(1) }

\* A uint32 to encode, and a JSON value that a response carries as its result.
CodecInit ==
    /\ conn = "uninit"
    /\ mtu = 0
    /\ faults = 0
    /\ LifeInit
    /\ DeviceInit
    /\ ClientInit
    /\ RunOff
    /\ cx \in Uint32Samples
    /\ cb = <<>>
    /\ cy = NoUint32
    /\ cj \in JSONSamples
    /\ cv = NoFrame
    /\ cj2 = NoJSON

\* What the codecs leave alone.
libVars == << conn, mtu, faults, lifeVars, callVars, runVars >>

\* toBytes(cx)
CodecToBytes ==
    /\ cb = <<>>
    /\ cb' = toBytes(cx)
    /\ UNCHANGED << libVars, cx, cy, cj, cv, cj2 >>

\* fromBytes(cb)
CodecFromBytes ==
    /\ cb # <<>>
    /\ cy = NoUint32
    /\ cy' = fromBytes(cb)
    /\ UNCHANGED << libVars, cx, cb, cj, cv, cj2 >>

\* json.Unmarshal(resBytes, &res) of a response for this client with the
\* result cj
CodecUnmarshal ==
    /\ cv = NoFrame
    /\ \E i \in IDs :
          cv' = UnmarshalResponse(DeviceFrame(i, SourceName, "result", cj))
    /\ UNCHANGED << libVars, cx, cb, cy, cj, cj2 >>

\* json.Marshal of the Result decoded
CodecMarshal ==
    /\ cv.ok
    /\ cj2 = NoJSON
    /\ cj2' = MarshalMap(cv.frame.Result).j
    /\ UNCHANGED << libVars, cx, cb, cy, cj, cv >>

CodecNext ==
    \/ CodecToBytes
    \/ CodecFromBytes
    \/ CodecUnmarshal
    \/ CodecMarshal

SpecCodec == CodecInit /\ [][CodecNext]_vars

\* ------------------------------------------------- the writer and the reader alone
\* A direct call of writeToChar or readFromChar on the Data characteristic of a
\* connected client, by the one caller.
\* The sequences of 0s and 1s of length n, and of lengths up to n.
RECURSIVE BitSeqs(_)
BitSeqs(n) ==
    IF n = 0 THEN { <<>> }
    ELSE { Append(b, x) : b \in BitSeqs(n - 1), x \in {0, 1} }

BitSeqsUpTo(n) == UNION { BitSeqs(k) : k \in 0..n }

\* The bytes 1, 2, ..., k.
Counting(k) == [i \in 1..k |-> i]

\* writeToChar(dataChar, d) is called: any d of up to MaxLen bytes, any MTU.
WriteInit ==
    /\ conn = "connected"
    /\ mtu \in MTUs
    /\ faults = 0
    /\ spc = "idle" /\ link = "up" /\ serr = <<>> /\ tout = "none"
    /\ RunOff
    /\ CodecOff
    /\ DeviceInit
    /\ \E d \in BitSeqsUpTo(MaxLen) :
          /\ data = [p \in Callers |-> IF p = Direct THEN d ELSE <<>>]
          /\ wIn = data
    /\ pc = [p \in Callers |-> IF p = Direct THEN "w_mtu" ELSE "idle"]
    /\ step = [p \in Callers |-> IF p = Direct THEN "direct" ELSE ""]
    /\ char = [p \in Callers |-> IF p = Direct THEN "data" ELSE ""]
    /\ req = [p \in Callers |-> RequestFrame(0, "", "nil")]
    /\ reqBytes = [p \in Callers |-> <<>>]
    /\ mtuL = [p \in Callers |-> 0]
    /\ wlog = [p \in Callers |-> <<>>]
    /\ want = [p \in Callers |-> 0]
    /\ need = [p \in Callers |-> 0]
    /\ res = [p \in Callers |-> <<>>]
    /\ rfail = [p \in Callers |-> FALSE]
    /\ got = [p \in Callers |-> <<>>]
    /\ reads = [p \in Callers |-> 0]
    /\ resp = [p \in Callers |-> ZeroResponse]
    /\ io = [p \in Callers |-> <<>>]
    /\ out = [p \in Callers |-> NoOutcome]

WriteNext ==
    \/ WriteGetMTU(Direct)
    \/ WriteChunk(Direct)
    \/ WriteReturn(Direct)

SpecWrite == WriteInit /\ [][WriteNext]_vars

\* readFromChar(dataChar, length) is called: any length up to MaxLen, any MTU,
\* the characteristic holding the bytes 1..k, k up to MaxLen.
ReadInit ==
    /\ conn = "connected"
    /\ mtu \in MTUs
    /\ faults = 0
    /\ spc = "idle" /\ link = "up" /\ serr = <<>> /\ tout = "none"
    /\ RunOff
    /\ CodecOff
    /\ devExpect = -1
    /\ devIn = <<>>
    /\ rxOut = <<>>
    /\ answered = [p \in Callers |-> FALSE]
    /\ \E k \in 0..MaxLen : dataOut = Counting(k)
    /\ \E n \in 0..MaxLen :
          /\ want = [p \in Callers |-> IF p = Direct THEN n ELSE 0]
          /\ need = want
    /\ pc = [p \in Callers |-> IF p = Direct THEN "r_mtu" ELSE "idle"]
    /\ step = [p \in Callers |-> IF p = Direct THEN "direct" ELSE ""]
    /\ char = [p \in Callers |-> IF p = Direct THEN "data" ELSE ""]
    /\ req = [p \in Callers |-> RequestFrame(0, "", "nil")]
    /\ reqBytes = [p \in Callers |-> <<>>]
    /\ mtuL = [p \in Callers |-> 0]
    /\ data = [p \in Callers |-> <<>>]
    /\ wIn = [p \in Callers |-> <<>>]
    /\ wlog = [p \in Callers |-> <<>>]
    /\ res = [p \in Callers |-> <<>>]
    /\ rfail = [p \in Callers |-> FALSE]
    /\ got = [p \in Callers |-> <<>>]
    /\ reads = [p \in Callers |-> 0]
    /\ resp = [p \in Callers |-> ZeroResponse]
    /\ io = [p \in Callers |-> <<>>]
    /\ out = [p \in Callers |-> NoOutcome]

ReadNext ==
    \/ ReadGetMTU(Direct)
    \/ ReadChunk(Direct)
    \/ ReadReturn(Direct)

SpecRead == ReadInit /\ [][ReadNext]_vars

\* ================================================================= properties
IsPrefix(a, b) == Len(a) <= Len(b) /\ a = SubSeq(b, 1, Len(a))

RECURSIVE Flatten(_)
Flatten(ss) == IF ss = <<>> THEN <<>> ELSE Head(ss) \o Flatten(Tail(ss))

Count(h, tag) == Cardinality({ i \in 1..Len(h) : h[i] = tag })

\* The characteristic I/O of a roundtrip, in order.
Order == << << "write", "tx" >>, << "write", "data" >>, << "read", "rx" >>, << "read", "data" >> >>

RoundtripSteps == {"marshal", "txlen", "txdata", "rxlen", "rxdata", "unmarshal"}
RoundtripErrors == { StepError(s) : s \in RoundtripSteps }
CorrelationErrors == {"wrong response ID", "wrong response destination"}

\* The place of a step in the roundtrip, by its message (0: the encoding,
\* 1..4: the I/O steps, 5: the decoding).
StepIndex(e) ==
    CASE e = "marshalling request" -> 0
      [] e = "write request length to TX control characteristic" -> 1
      [] e = "write request to data characteristic" -> 2
      [] e = "read response length from RX control characteristic" -> 3
      [] e = "read response from data characteristic" -> 4
      [] OTHER -> 5

\* Call has returned: a result or an error.
Returned(p) == pc[p] = "idle" /\ out[p].state \in {"ok", "err"}

\* Call has returned and its Roundtrip had returned no error.
RoundtripSucceeded(p) == Returned(p) /\ out[p].err \notin RoundtripErrors

\* All of the roundtrip's I/O is done.
RoundtripCompleted(p) == pc[p] \in {"unmarshal", "check"} \/ RoundtripSucceeded(p)

\* The chunks writeToChar issued, and the bytes the characteristic took.
Chunks(p) == [i \in 1..Len(wlog[p]) |-> wlog[p][i].chunk]
Written(p) ==
    Flatten([i \in 1..Len(wlog[p]) |->
               IF wlog[p][i].n < 0 THEN <<>> ELSE SubSeq(wlog[p][i].chunk, 1, wlog[p][i].n)])
AllFull(p) == \A i \in 1..Len(wlog[p]) : wlog[p][i].n = Len(wlog[p][i].chunk)

CeilDiv(n, m) == (n + m - 1) \div m

\* C1: the I/O of a Call is, at every moment, a beginning of: writes to
\* Tx-length, writes to Data, reads from Rx-length, reads from Data; and it is
\* all four, in this order, once the roundtrip has run to completion (all but
\* the reads from Data when the response's length is 0).
C1_Order ==
    \A p \in Callers :
        /\ IsPrefix(io[p], Order)
        /\ RoundtripCompleted(p) =>
              \/ io[p] = Order
              \/ io[p] = SubSeq(Order, 1, 3) /\ want[p] = 0

\* A roundtrip ran to completion, its payload written in more than one chunk.
C1_Witness ==
    \E p \in Callers : pc[p] = "check" /\ io[p] = Order /\ Len(wlog[p]) >= 2

\* C2: a failed step makes the Call return an error and no result; the error
\* names the step that failed: the I/O done is that of the steps before it and
\* at most its own, none of a later step; and a failed chunk write, a failed
\* read, a request that cannot be encoded or a response that cannot be decoded
\* never ends in a result.
C2_AbortAtFailedStep ==
    \A p \in Callers :
        /\ (out[p].state = "err" /\ out[p].err \in RoundtripErrors) =>
              /\ pc[p] = "idle"
              /\ out[p].result = "nil"
              /\ IsPrefix(io[p], Order)
              /\ Len(io[p]) <= Min(StepIndex(out[p].err), 4)
              /\ Len(io[p]) >= Min(StepIndex(out[p].err), 4) - 1
        /\ (~AllFull(p) \/ rfail[p]) => out[p].state = "err"
        /\ (Returned(p) /\ ~MarshalRequest(req[p]).ok) =>
              out[p].err = "marshalling request" /\ io[p] = <<>>
        /\ (Returned(p) /\ out[p].state = "ok") => UnmarshalResponse(res[p]).ok

\* The write of the payload fell short: the Call returned the error of that
\* step, after the writes to Tx-length and to Data only.
C2_Witness ==
    \E p \in Callers :
        /\ Returned(p)
        /\ out[p].err = "write request to data characteristic"
        /\ out[p].cause = "short write"
        /\ io[p] = SubSeq(Order, 1, 2)

\* C3: while every write reports its chunk written in full, every chunk has
\* at most mtu bytes and, but for the last, exactly mtu; the chunks in the
\* order issued, followed by what is still to write, are the input, and are
\* what the characteristic received; and when nothing is left to write,
\* ceil(n / mtu) writes were issued.
C3_Chunking ==
    \A p \in Callers :
        (pc[p] \in {"w_loop", "idle"} /\ mtuL[p] >= 1 /\ AllFull(p)) =>
            /\ \A i \in 1..Len(wlog[p]) :
                  /\ Len(Chunks(p)[i]) <= mtuL[p]
                  /\ Len(Chunks(p)[i]) = mtuL[p] \/ (i = Len(wlog[p]) /\ data[p] = <<>>)
            /\ Flatten(Chunks(p)) \o data[p] = wIn[p]
            /\ devIn = Flatten(Chunks(p))
            /\ data[p] = <<>> => Len(wlog[p]) = CeilDiv(Len(wIn[p]), mtuL[p])

\* 5 bytes were written with an MTU of 2, in chunks of 2, 2 and 1.
C3_Witness ==
    \E p \in Callers :
        /\ pc[p] = "idle" /\ out[p].state = "ok"
        /\ Len(wIn[p]) = 5 /\ mtuL[p] = 2
        /\ Len(wlog[p]) = 3 /\ Len(wlog[p][3].chunk) = 1

\* C4: a chunk write that reports fewer bytes than the chunk's, or fails, is
\* the last one issued, and writeToChar has returned an error.
C4_ShortWriteAborts ==
    \A p \in Callers :
        /\ \A i \in 1..(Len(wlog[p]) - 1) : wlog[p][i].n = Len(wlog[p][i].chunk)
        /\ ~AllFull(p) =>
              /\ pc[p] = "idle"
              /\ out[p].state = "err"
              /\ out[p].cause \in {"short write", "write chunk"}

\* The second chunk or a later one was written short, with more chunks to come.
C4_Witness ==
    \E p \in Callers :
        /\ Len(wlog[p]) >= 2
        /\ wlog[p][Len(wlog[p])].n >= 0
        /\ wlog[p][Len(wlog[p])].n < Len(wlog[p][Len(wlog[p])].chunk)
        /\ Len(data[p]) > Len(wlog[p][Len(wlog[p])].chunk)

\* C5: readFromChar returns exactly `length` bytes, the first `length` the
\* characteristic delivered.
C5_ExactLength ==
    \A p \in Callers :
        (pc[p] = "idle" /\ out[p].state = "ok" /\ step[p] = "direct") =>
            /\ Len(res[p]) = want[p]
            /\ res[p] = SubSeq(got[p], 1, want[p])

\* C6: after an underlying read returned an error, readFromChar has returned
\* that error and no buffer, and is not in its loop to read again.
C6_ReadErrorAborts ==
    \A p \in Callers :
        rfail[p] =>
            /\ pc[p] = "idle"
            /\ out[p].state = "err"
            /\ out[p].cause = "read from characteristic"
            /\ out[p].result = "nil"

\* A read failed after bytes had been read and with bytes still needed.
C6_Witness ==
    \E p \in Callers : rfail[p] /\ got[p] # <<>> /\ need[p] > 0

\* C7: when the roundtrip succeeded on a response of another id or for another
\* destination, Call returned a correlation error and no result; and a result
\* is only ever returned from a response of the Call's id for SourceName.
C7_Correlation ==
    \A p \in Callers :
        /\ \A i \in IDs, d \in Destinations, b \in DeviceBodies :
              (/\ RoundtripSucceeded(p)
               /\ res[p] = DeviceFrame(i, d, b[1], b[2])
               /\ (i # req[p].ID \/ d # SourceName)) =>
                  /\ out[p].state = "err"
                  /\ out[p].err \in CorrelationErrors
                  /\ out[p].result = "nil"
        /\ (Returned(p) /\ out[p].state = "ok") =>
              \E b \in DeviceBodies : res[p] = DeviceFrame(req[p].ID, SourceName, b[1], b[2])

\* A response of the Call's id for another destination was refused.
C7_Witness ==
    \E p \in Callers, b \in DeviceBodies :
        /\ Returned(p)
        /\ res[p] = DeviceFrame(req[p].ID, "other", b[1], b[2])
        /\ out[p].err = "wrong response destination"

\* C8: when the response read has the Call's id, SourceName as destination
\* and a result, Call returned that result and no error.
C8_ResultUnchanged ==
    \A p \in Callers, v \in {"a1", "envelope"} :
        (/\ Returned(p)
         /\ step[p] = "rxdata"
         /\ res[p] = DeviceFrame(req[p].ID, SourceName, "result", MarshalMap(v).j)) =>
            out[p] = OkOutcome(v)

\* A Call returned the result {"a1"} of a matching response.
C8_Witness ==
    \E p \in Callers :
        /\ Returned(p)
        /\ res[p] = DeviceFrame(req[p].ID, SourceName, "result", MarshalMap("a1").j)
        /\ out[p] = OkOutcome("a1")

\* C9: a correlated response that carries a device-side error envelope is not
\* swallowed: Call returns the envelope, as an RPCError or in its result.
C9_ApplicationErrorVisible ==
    \A p \in Callers, k \in {"error", "result"} :
        (/\ Returned(p)
         /\ step[p] = "rxdata"
         /\ res[p] = DeviceFrame(req[p].ID, SourceName, k, MarshalMap("envelope").j)) =>
            \/ out[p].state = "err" /\ out[p].err = "RPCError"
            \/ out[p].state = "ok" /\ out[p].result = "envelope"

\* C10: a Call writes to Tx-length in one run and to Data in one run, what
\* it wrote is a beginning of the length prefix or of the encoded request,
\* and once it has an outcome it has returned: it goes through no second
\* roundtrip, whatever step failed.
C10_SingleRoundtrip ==
    \A p \in Callers :
        /\ Count(io[p], << "write", "tx" >>) <= 1
        /\ Count(io[p], << "write", "data" >>) <= 1
        /\ step[p] = "txlen" => IsPrefix(Written(p), toBytes(Uint32(Len(reqBytes[p]))))
        /\ step[p] \in {"txdata", "rxlen", "rxdata"} => IsPrefix(Written(p), reqBytes[p])
        /\ out[p].state # "none" => pc[p] \in {"idle", "panicked"}

\* The read of the response's length failed, and the Call returned after one
\* write of the length and one of the payload.
C10_Witness ==
    \E p \in Callers :
        /\ Returned(p)
        /\ out[p].err = "read response length from RX control characteristic"
        /\ io[p] = SubSeq(Order, 1, 3)
        /\ Written(p) = reqBytes[p]

\* C11: a Call ends in a result or in an error, never in both. It returned a
\* result only after the request was encoded and written in full, the length
\* and the response were read, the response was decoded and both its id and
\* its destination matched; then the result is the decoded one. It returned an
\* error, with no result, when a step of the roundtrip or a check failed.
C11_NoPartialSuccess ==
    \A p \in Callers :
        /\ out[p].state # "ok" => out[p].result = "nil"
        /\ (Returned(p) /\ out[p].state = "ok") =>
              /\ MarshalRequest(req[p]).ok
              /\ io[p] = Order
              /\ AllFull(p) /\ Written(p) = reqBytes[p]
              /\ ~rfail[p] /\ Len(res[p]) >= want[p]
              /\ UnmarshalResponse(res[p]).ok
              /\ resp[p] = UnmarshalResponse(res[p]).frame
              /\ resp[p].ID = req[p].ID
              /\ resp[p].Destination = SourceName
              /\ out[p] = OkOutcome(resp[p].Result)
        /\ (Returned(p) /\ out[p].state = "err") =>
              /\ out[p].err \in RoundtripErrors \cup CorrelationErrors
              /\ out[p].err \in CorrelationErrors =>
                    resp[p].ID # req[p].ID \/ resp[p].Destination # SourceName

\* A response with a result was read and decoded, and the Call returned the
\* error of the destination check and no result.
C11_Witness ==
    \E p \in Callers :
        /\ Returned(p)
        /\ out[p].err = "wrong response destination"
        /\ resp[p].Result = "a1"
        /\ out[p].result = "nil"

LengthPrefix(n) == << 0, 0, n \div 256, n % 256 >>

\* The length of the request was written to Tx-length in one write of its 4
\* bytes, most significant first, and the payload then written to Data is the
\* encoded request, of the length the device was announced.
LengthWrittenOnce(p) ==
    /\ step[p] = "txlen" =>
          /\ Len(wlog[p]) <= 1
          /\ \A i \in 1..Len(wlog[p]) : wlog[p][i].chunk = LengthPrefix(Len(reqBytes[p]))
    /\ (step[p] = "txdata" /\ devExpect >= 0) =>
          /\ devExpect = Len(reqBytes[p])
          /\ IsPrefix(devIn, reqBytes[p])

\* C17 (as claimed): LengthWrittenOnce, for every MTU of the characteristic.
C17_SingleLengthWriteAnyMTU ==
    \A p \in Callers : LengthWrittenOnce(p)

\* C17 (amended): LengthWrittenOnce, for every MTU of at least 4 bytes.
C17_SingleLengthWrite ==
    \A p \in Callers : mtu >= 4 => LengthWrittenOnce(p)

\* The length 6 of a request was written as the one chunk 0, 0, 0, 6, and the
\* device has it as the length announced.
C17_Witness ==
    \E p \in Callers :
        /\ step[p] = "txlen"
        /\ mtu >= 4
        /\ wlog[p] = << [chunk |-> << 0, 0, 0, 6 >>, n |-> 4] >>
        /\ Len(reqBytes[p]) = 6
        /\ devExpect = 6

\* C18: calls being made one at a time, a Call whose roundtrip ended on a
\* response that answers not its own request but one written before (the
\* device has not answered this Call's request), and that carries another id
\* than the Call's, returned the error of the id check and no result.
C18_StaleRefused ==
    \A p \in Callers, i \in IDs, d \in Destinations, b \in DeviceBodies :
        (/\ RoundtripSucceeded(p)
         /\ step[p] = "rxdata"
         /\ ~answered[p]
         /\ res[p] = DeviceFrame(i, d, b[1], b[2])
         /\ i # req[p].ID) =>
            /\ out[p].state = "err"
            /\ out[p].err = "wrong response ID"
            /\ out[p].result = "nil"

\* A Call was aborted by a transport fault after its request was written and
\* answered; the next Call, of another id, read that answer before the device
\* answered its own request, and returned the error of the id check.
C18_Witness ==
    \E p \in Callers, i \in IDs :
        /\ Returned(p)
        /\ faults >= 1
        /\ i # req[p].ID
        /\ ~answered[p]
        /\ res[p] = DeviceFrame(i, SourceName, "result", MarshalMap("a1").j)
        /\ out[p].err = "wrong response ID"
        /\ out[p].result = "nil"

\* C20: in readFromChar's loop the length still to read is the length asked
\* for less the bytes read so far; a read is issued only while fewer bytes than
\* asked for were read, and readFromChar returns a buffer only once that many
\* were read; with a length of 0 no read is issued and the buffer returned is
\* empty; the reads issued are at most the length asked for plus the reads that
\* gave no byte or failed (which draw on the faults); and a read that gives no
\* byte and no error changes nothing and leaves the reader in its loop, to
\* read again.
C20_ReaderTerminates ==
    /\ [](\A p \in Callers :
            /\ pc[p] = "r_loop" => need[p] = want[p] - Len(got[p])
            /\ (pc[p] = "idle" /\ out[p].state = "ok" /\ step[p] = "direct") =>
                  Len(got[p]) >= want[p]
            /\ (want[p] = 0 /\ step[p] = "direct") => reads[p] = 0 /\ res[p] = <<>>
            /\ step[p] = "direct" => reads[p] <= want[p] + faults)
    /\ [][\A p \in Callers :
            reads'[p] > reads[p] =>
                /\ Len(got[p]) < want[p]
                /\ (got'[p] = got[p] /\ ~rfail'[p]) =>
                      /\ need'[p] = need[p]
                      /\ res'[p] = res[p]
                      /\ pc'[p] = "r_loop"
                      /\ out'[p] = out[p]
       ]_vars

\* readFromChar returned 3 bytes after 4 reads, one of which gave no byte.
C20_Witness ==
    \E p \in Callers :
        /\ pc[p] = "idle" /\ out[p].state = "ok" /\ step[p] = "direct"
        /\ want[p] = 3 /\ Len(res[p]) = 3
        /\ reads[p] = 4
        /\ faults = 1

DiscoveryErrors == {"discover services", "discover characteristics"}

\* C19: when Setup returns the error of a discovery, the client's device and
\* characteristics are as before, the device was disconnected from or the
\* error returned wraps the disconnect's error around the discovery's, and
\* nothing else is in it; the client's device and characteristics are set
\* only by the step on which Setup returns nil, the connection being up; and
\* while Setup is at work they are not set.
C19_SetupFailureFrame ==
    /\ [](spc # "idle" => conn = "uninit" /\ mtu = 0 /\ link = "up")
    /\ [][ /\ (spc # "idle" /\ spc' = "idle" /\ serr' # <<>>) =>
                /\ conn' = conn /\ mtu' = mtu
                /\ serr'[Len(serr')] \in DiscoveryErrors
                /\ \/ link' = "down" /\ Len(serr') = 1
                   \/ serr' = << "disconnect from device", serr'[2] >>
           /\ (conn' # conn /\ conn' = "connected") =>
                /\ spc = "chars" /\ spc' = "idle"
                /\ serr' = <<>>
                /\ link' = "up"
       ]_vars

\* The discovery of the characteristics failed and the disconnect after it
\* failed too: Setup returned both errors, and the client is as before.
C19_Witness ==
    /\ spc = "idle"
    /\ serr = << "disconnect from device", "discover characteristics" >>
    /\ conn = "uninit"
    /\ mtu = 0

\* The failures of run after a successful Setup and before the Teardown, with
\* the return code of each.
OriginalFailures == { << "Failed to unmarshal params", 20 >>, << "Failed to call", 40 >> }

\* C14: when run has returned after a failure of the decoding of the params
\* or of the Call, and Teardown failed too, both failures are in the log and
\* the return code is still the original failure's.
C14_BothFailuresReported ==
    \A f \in OriginalFailures :
        (rpc = "exit" /\ f[1] \in log /\ tout = "err") =>
            /\ "Failed to teardown RPC client" \in log
            /\ rc = f[2]

\* C12: the bytes of a uint32 are 4, each of 0..255, the more significant
\* half first and in each half the more significant byte first; and the
\* uint32 read back from them is the one encoded.
C12_LengthCodec ==
    /\ cb # <<>> =>
          /\ Len(cb) = 4
          /\ \A i \in 1..4 : cb[i] \in 0..255
          /\ cb[1] * 256 + cb[2] = cx.hi
          /\ cb[3] * 256 + cb[4] = cx.lo
    /\ cy # NoUint32 => cy = cx

\* 4294967295 was encoded as 255, 255, 255, 255 and read back.
C12_Witness ==
    /\ cx = [hi |-> 65535, lo |-> 65535]
    /\ cb = << 255, 255, 255, 255 >>
    /\ cy = cx

\* The values the round trip is claimed for: null, an object, a deeply nested
\* object, a bare string.
Representative ==
    { JNull, JObj("{a:1,b:[1,2,3]}"), JObj("{a:{b:{c:[{d:null}]}}}"), JStr("x") }

\* C15: a response whose result is one of the representative values decodes,
\* and the result decoded, when encoded again, is that value.
C15_FrameRoundTrip ==
    cj \in Representative =>
        /\ cv # NoFrame => cv.ok
        /\ cj2 # NoJSON => cj2 = cj

\* C16: no Call waits for another. A goroutine whose Call has not started can
\* start it, and one that is encoding or writing its request can take its
\* next step, wherever the other goroutine's Call is.
C16_NoInternalLock ==
    \A q \in Callers :
        /\ pc[q] = "idle" => ENABLED (\E m \in Methods : Call(q, m, "empty"))
        /\ pc[q] \in {"marshal", "w_mtu", "w_loop"} => ENABLED CallSteps(q)

\* Call q wrote its request after the device had answered call p's and before
\* p read anything, and q has read and decoded the response to p's request:
\* it carries p's id, not q's.
C16_Witness ==
    \E p, q \in Callers :
        /\ p # q
        /\ req[p].ID # req[q].ID
        /\ answered[p]
        /\ ~answered[q]
        /\ step[p] = "rxlen"
        /\ got[p] = <<>>
        /\ pc[q] = "check"
        /\ resp[q].ID = req[p].ID

====
